---- MODULE Spec2Model ----
(***************************************************************************)
(* Model of buildapi_client/buildapi_client.py: a stateless client of the  *)
(* buildapi self-serve service.  Every public function is an operator from *)
(* its arguments and the server's response to the HTTP requests it issues  *)
(* and its outcome (a returned value or a raised exception); one action    *)
(* per public function applies it.                                         *)
(***************************************************************************)
EXTENDS Integers, Sequences, FiniteSets, TLC

VARIABLES
    op,             \* name of the function invoked last ("none" before any call)
    args,           \* the arguments of that invocation
    response,       \* the response the server gave to it (if a request was sent)
    sent,           \* the HTTP requests that invocation issued, in order
    result,         \* its outcome: a return value or a raised exception
    n_calls,        \* number of invocations so far
    n_live,         \* number of them that took dry_run and were given dry_run false
    n_sent,         \* number of HTTP requests those invocations issued
    default_files   \* the list object shared as the default of `files`

vars == <<op, args, response, sent, result, n_calls, n_live, n_sent, default_files>>

----------------------------------------------------------------------------
(* Bounds of the model *)

MaxCalls == 2       \* invocations in one behaviour
MaxFiles == 2       \* length of a `files` argument

(* Module constants *)

HOST_ROOT == "https://secure.pub.build.mozilla.org/buildapi"
SELF_SERVE == <<HOST_ROOT, "/self-serve">>
DEFAULT_COUNT_NUM == 1
DEFAULT_PRIORITY == 0

----------------------------------------------------------------------------
(* Input universes *)

Repos == {"r1", "r2"}
Builders == {"b1"}
Revisions == {"rev1"}
Ids == {"id1"}
Auths == {"creds"}
FileItems == {"", "f1"}                  \* "" is the falsy element
Counts == {1, 10}
Priorities == {0, 2}
Statuses == {200, 401, 500}

\* The strings used as property keys and values, in Python's str order.
StrOrder == <<"aaa", "branch", "other", "r1", "r2", "rev1", "revision", "zzz">>

SeqsUpTo(S, n) == UNION {[1..k -> S] : k \in 0..n}
FilesLists == SeqsUpTo(FileItems, MaxFiles)

\* Optional arguments: None, or a value.
PyNone == [none |-> TRUE]
Some(v) == [none |-> FALSE, v |-> v]

EmptyDict == [k \in {} |-> ""]
ExtraDicts == {[k \in {"branch", "zzz"} |-> "other"],
               [k \in {"aaa", "revision"} |-> "other"]}
ExtraArgs == {PyNone} \cup {Some(d) : d \in ExtraDicts}

----------------------------------------------------------------------------
(* Server responses.  A body is malformed text, a JSON object or a JSON    *)
(* array; value is what json() parses it to.                               *)

Malformed == [kind |-> "malformed", value |-> <<>>]
JsonObject(f) == [kind |-> "object", value |-> f]
JsonArray(s) == [kind |-> "array", value |-> s]

\* POST_RESPONSE of the tests, and an object without request_id
GoodPost == JsonObject([k \in {"body", "request_id"} |-> IF k = "body" THEN "Ok" ELSE "1234567"])
ErrorPost == JsonObject([k \in {"msg"} |-> "error"])

\* pending jobs of a repository: revision -> jobs
RevMap(repo) ==
    IF repo = "r1" THEN [r \in {"rev1"} |-> <<"job1">>]
    ELSE [r \in {"rev1", "rev2"} |-> IF r = "rev1" THEN <<"job1", "job2">> ELSE <<>>]
PendingMaps == {[repo \in S |-> RevMap(repo)] : S \in SUBSET Repos}
PendingBody(M) == JsonObject([k \in {"pending"} |-> M])

PostBodies == {Malformed, GoodPost, ErrorPost}
ScheduleBodies == {Malformed, JsonArray(<<>>), JsonArray(<<"job1", "job2">>)}
PendingBodies == {Malformed, JsonArray(<<>>)} \cup {PendingBody(M) : M \in PendingMaps}

Response(status, body) == [status_code |-> status, body |-> body]
NoResponse == [status_code |-> 0, body |-> Malformed]

----------------------------------------------------------------------------
(* Outcomes *)

Return(tag, v) == [kind |-> "return", tag |-> tag, value |-> v]
Raise(exc) == [kind |-> "raise", tag |-> exc, value |-> <<>>]
ReturnNone == Return("None", <<>>)

Outcome(requests, res) == [sent |-> requests, result |-> res]

\* requests.post / requests.delete / requests.get: the call as issued
Request(method, url, kwargs) == [method |-> method, url |-> url, kwargs |-> kwargs]

\* req.json(): ValueError on a body that is not JSON, else the parsed value
JsonRaises(resp) == resp.body.kind = "malformed"
Json(resp) == resp.body.value

----------------------------------------------------------------------------
(* JSON text, as a sequence of tokens: punctuation and quoted strings *)

Punct(c) == <<"punct", c>>
Str(x) == <<"str", x>>

\* sorted(keys): the keys in str order
SortedKeys(K) == SelectSeq(StrOrder, LAMBDA k : k \in K)

RECURSIVE DumpsItems(_, _)
DumpsItems(keys, d) ==
    IF keys = <<>> THEN <<>>
    ELSE <<Str(Head(keys)), Punct(":"), Str(d[Head(keys)])>>
         \o (IF Len(keys) > 1 THEN <<Punct(",")>> ELSE <<>>)
         \o DumpsItems(Tail(keys), d)

\* json.dumps(props, sort_keys=True) of a dict of strings
json_dumps_sorted(d) ==
    <<Punct("{")>> \o DumpsItems(SortedKeys(DOMAIN d), d) \o <<Punct("}")>>

RECURSIVE DumpsElems(_)
DumpsElems(xs) ==
    IF xs = <<>> THEN <<>>
    ELSE <<Str(Head(xs))>>
         \o (IF Len(xs) > 1 THEN <<Punct(",")>> ELSE <<>>)
         \o DumpsElems(Tail(xs))

\* json.dumps(files) of a list of strings
json_dumps_list(xs) == <<Punct("[")>> \o DumpsElems(xs) \o <<Punct("]")>>

----------------------------------------------------------------------------
(* Helpers of the client *)

\* a.update(b): the keys of b win
DictUpdate(a, b) ==
    [k \in DOMAIN a \cup DOMAIN b |-> IF k \in DOMAIN b THEN b[k] ELSE a[k]]

\* `x or {}` for an optional dict
OrEmptyDict(x) == IF x.none \/ DOMAIN x.v = {} THEN EmptyDict ELSE x.v

\* Truth value of a str; all(files); truth value of a list
Truthy(x) == x # ""
All(xs) == \A i \in 1..Len(xs) : Truthy(xs[i])

_builders_api_url(repo_name, builder, revision) ==
    SELF_SERVE \o <<"/", repo_name, "/builders/", builder, "/", revision>>

_jobs_api_url(job_id) == SELF_SERVE \o <<"/jobs/", job_id>>

\* mutant: the mandatory properties are written over the caller's
_payload_mandatory_win(repo_name, revision, files, extra_properties) ==
    LET props == DictUpdate(OrEmptyDict(extra_properties),
                            [k \in {"branch", "revision"} |->
                                IF k = "branch" THEN repo_name ELSE revision])
        properties == json_dumps_sorted(props)
    IN  IF files # <<>> /\ All(files)
        THEN [k \in {"properties", "files"} |->
                 IF k = "properties" THEN properties ELSE json_dumps_list(files)]
        ELSE [k \in {"properties"} |-> properties]

\* mutant: the falsy elements are dropped and the rest sent
_payload_filtering(repo_name, revision, files, extra_properties) ==
    LET props == DictUpdate([k \in {"branch", "revision"} |->
                                IF k = "branch" THEN repo_name ELSE revision],
                            OrEmptyDict(extra_properties))
        properties == json_dumps_sorted(props)
        kept == SelectSeq(files, Truthy)
    IN  IF kept # <<>>
        THEN [k \in {"properties", "files"} |->
                 IF k = "properties" THEN properties ELSE json_dumps_list(kept)]
        ELSE [k \in {"properties"} |-> properties]

_payload(repo_name, revision, files, extra_properties) ==
    LET props == DictUpdate([k \in {"branch", "revision"} |->
                                IF k = "branch" THEN repo_name ELSE revision],
                            OrEmptyDict(extra_properties))
        properties == json_dumps_sorted(props)
    IN  IF files # <<>> /\ All(files)
        THEN [k \in {"properties", "files"} |->
                 IF k = "properties" THEN properties ELSE json_dumps_list(files)]
        ELSE [k \in {"properties"} |-> properties]

AcceptJson == [k \in {"Accept"} |-> "application/json"]

PostKwargs(payload, auth) ==
    [k \in {"headers", "data", "auth"} |->
        CASE k = "headers" -> AcceptJson
          [] k = "data" -> payload
          [] OTHER -> auth]

AuthKwargs(auth) == [k \in {"auth"} |-> auth]

----------------------------------------------------------------------------
(* The public functions: from the arguments and the server's response      *)
(* `resp` (read only when a request is sent) to the requests issued and    *)
(* the outcome.                                                            *)

\* content["request_id"]: KeyError on an object without the key, TypeError
\* on a list
SubscriptRaises(content_kind, content, key) ==
    IF content_kind = "object"
    THEN (IF key \in DOMAIN content THEN "" ELSE "KeyError")
    ELSE "TypeError"

\* mutant: the 401 check is left out
trigger_arbitrary_job_no_auth_check(repo_name, builder, revision, auth, files, dry_run, extra_properties, resp) ==
    LET url == _builders_api_url(repo_name, builder, revision)
        payload == _payload(repo_name, revision, files, extra_properties)
        req == Request("POST", url, PostKwargs(payload, auth))
        exc == SubscriptRaises(resp.body.kind, Json(resp), "request_id")
    IN  IF dry_run
        THEN [sent |-> <<>>, result |-> ReturnNone, files |-> files]
        ELSE [sent |-> <<req>>,
              result |-> IF JsonRaises(resp) THEN ReturnNone
                         ELSE IF exc # "" THEN Raise(exc)
                         ELSE Return("response", resp),
              files |-> files]

\* mutant: the job's own file is added to the list passed in
trigger_arbitrary_job_appending(repo_name, builder, revision, auth, files, dry_run, extra_properties, resp) ==
    LET url == _builders_api_url(repo_name, builder, revision)
        payload == _payload(repo_name, revision, files, extra_properties)
        req == Request("POST", url, PostKwargs(payload, auth))
        exc == SubscriptRaises(resp.body.kind, Json(resp), "request_id")
        after == IF Len(files) < MaxFiles THEN Append(files, "f1") ELSE files
    IN  IF dry_run
        THEN [sent |-> <<>>, result |-> ReturnNone, files |-> after]
        ELSE [sent |-> <<req>>,
              result |-> IF resp.status_code = 401 THEN Raise("BuildapiAuthError")
                         ELSE IF JsonRaises(resp) THEN ReturnNone
                         ELSE IF exc # "" THEN Raise(exc)
                         ELSE Return("response", resp),
              files |-> after]

\* `files` of the outcome is the content of the list object passed as
\* `files` when the call ends
trigger_arbitrary_job(repo_name, builder, revision, auth, files, dry_run, extra_properties, resp) ==
    LET url == _builders_api_url(repo_name, builder, revision)
        payload == _payload(repo_name, revision, files, extra_properties)
        req == Request("POST", url, PostKwargs(payload, auth))
        exc == SubscriptRaises(resp.body.kind, Json(resp), "request_id")
    IN  IF dry_run
        THEN [sent |-> <<>>, result |-> ReturnNone, files |-> files]
        ELSE [sent |-> <<req>>,
              result |-> IF resp.status_code = 401 THEN Raise("BuildapiAuthError")
                         ELSE IF JsonRaises(resp) THEN ReturnNone
                         ELSE IF exc # "" THEN Raise(exc)
                         ELSE Return("response", resp),
              files |-> files]

\* mutant: `and` for `or`
RetriggerPayload_and(id_key, id, count, priority) ==
    IF count # DEFAULT_COUNT_NUM /\ priority # DEFAULT_PRIORITY
    THEN [k \in {id_key, "count", "priority"} |->
             CASE k = "count" -> count
               [] k = "priority" -> priority
               [] OTHER -> id]
    ELSE [k \in {id_key} |-> id]

RetriggerPayload(id_key, id, count, priority) ==
    IF count # DEFAULT_COUNT_NUM \/ priority # DEFAULT_PRIORITY
    THEN [k \in {id_key, "count", "priority"} |->
             CASE k = "count" -> count
               [] k = "priority" -> priority
               [] OTHER -> id]
    ELSE [k \in {id_key} |-> id]

make_retrigger_request(repo_name, request_id, auth, count, priority, dry_run, resp) ==
    LET url == SELF_SERVE \o <<"/", repo_name, "/request">>
        payload == RetriggerPayload("request_id", request_id, count, priority)
    IN  IF dry_run
        THEN Outcome(<<>>, ReturnNone)
        ELSE Outcome(<<Request("POST", url, PostKwargs(payload, auth))>>,
                     Return("response", resp))

\* mutant: dry_run is not consulted
make_cancel_request_always_sends(repo_name, request_id, auth, dry_run, resp) ==
    Outcome(<<Request("DELETE", SELF_SERVE \o <<"/", repo_name, "/request/", request_id>>,
                      AuthKwargs(auth))>>,
            Return("response", resp))

make_cancel_request(repo_name, request_id, auth, dry_run, resp) ==
    LET url == SELF_SERVE \o <<"/", repo_name, "/request/", request_id>>
    IN  IF dry_run
        THEN Outcome(<<>>, ReturnNone)
        ELSE Outcome(<<Request("DELETE", url, AuthKwargs(auth))>>,
                     Return("response", resp))

\* mutant: the request is sent again after a 5xx answer
make_retrigger_build_request_retrying(repo_name, build_id, auth, count, priority, dry_run, resp) ==
    LET url == SELF_SERVE \o <<"/", repo_name, "/build">>
        payload == RetriggerPayload("build_id", build_id, count, priority)
        req == Request("POST", url, PostKwargs(payload, auth))
    IN  IF dry_run
        THEN Outcome(<<>>, ReturnNone)
        ELSE Outcome(IF resp.status_code >= 500 THEN <<req, req>> ELSE <<req>>,
                     Return("response", resp))

make_retrigger_build_request(repo_name, build_id, auth, count, priority, dry_run, resp) ==
    LET url == SELF_SERVE \o <<"/", repo_name, "/build">>
        payload == RetriggerPayload("build_id", build_id, count, priority)
    IN  IF dry_run
        THEN Outcome(<<>>, ReturnNone)
        ELSE Outcome(<<Request("POST", url, PostKwargs(payload, auth))>>,
                     Return("response", resp))

make_query_repositories_request(auth, dry_run, resp) ==
    LET url == SELF_SERVE \o <<"/branches?format=json">>
    IN  IF dry_run
        THEN Outcome(<<>>, ReturnNone)
        ELSE Outcome(<<Request("GET", url, AuthKwargs(auth))>>,
                     IF resp.status_code = 401 THEN Raise("BuildapiAuthError")
                     ELSE IF JsonRaises(resp) THEN Raise("ValueError")
                     ELSE Return("json", Json(resp)))

\* mutant: 401 is reported as in make_query_repositories_request
query_jobs_schedule_raising(repo_name, revision, auth, resp) ==
    LET url == SELF_SERVE \o <<"/", repo_name, "/rev/", revision, "?format=json">>
    IN  Outcome(<<Request("GET", url, [k \in {"params"} |-> auth])>>,
                IF resp.status_code = 401 THEN Raise("BuildapiAuthError")
                ELSE IF resp.status_code \notin {200} THEN Return("list", <<>>)
                ELSE IF JsonRaises(resp) THEN Raise("ValueError")
                ELSE Return("json", Json(resp)))

\* requests.get(url, auth): auth goes in as the second positional
\* parameter, params
query_jobs_schedule(repo_name, revision, auth, resp) ==
    LET url == SELF_SERVE \o <<"/", repo_name, "/rev/", revision, "?format=json">>
    IN  Outcome(<<Request("GET", url, [k \in {"params"} |-> auth])>>,
                IF resp.status_code \notin {200} THEN Return("list", <<>>)
                ELSE IF JsonRaises(resp) THEN Raise("ValueError")
                ELSE Return("json", Json(resp)))

query_jobs_url(repo_name, revision) ==
    Outcome(<<>>, Return("str", SELF_SERVE \o <<"/", repo_name, "/rev/", revision>>))

\* mutant: repo_name is not used to restrict the result
query_pending_jobs_unfiltered(auth, repo_name, return_raw, resp) ==
    LET url == <<HOST_ROOT, "/pending?format=json">>
        raw == Json(resp)
        exc == SubscriptRaises(resp.body.kind, raw, "pending")
        pending == raw["pending"]
        data == [repo \in DOMAIN pending |->
                    [revision \in DOMAIN pending[repo] |-> pending[repo][revision]]]
    IN  Outcome(<<Request("GET", url, AuthKwargs(auth))>>,
                IF resp.status_code \notin {200} THEN Return("list", <<>>)
                ELSE IF JsonRaises(resp) THEN Raise("ValueError")
                ELSE IF return_raw THEN Return("json", raw)
                ELSE IF exc # "" THEN Raise(exc)
                ELSE Return("dict", data))

query_pending_jobs(auth, repo_name, return_raw, resp) ==
    LET url == <<HOST_ROOT, "/pending?format=json">>
        raw == Json(resp)
        exc == SubscriptRaises(resp.body.kind, raw, "pending")
        pending == raw["pending"]
        repo_list == IF ~repo_name.none /\ Truthy(repo_name.v)
                        /\ repo_name.v \in DOMAIN pending
                     THEN {repo_name.v}
                     ELSE DOMAIN pending
        data == [repo \in repo_list |->
                    [revision \in DOMAIN pending[repo] |-> pending[repo][revision]]]
    IN  Outcome(<<Request("GET", url, AuthKwargs(auth))>>,
                IF resp.status_code \notin {200} THEN Return("list", <<>>)
                ELSE IF JsonRaises(resp) THEN Raise("ValueError")
                ELSE IF return_raw THEN Return("json", raw)
                ELSE IF exc # "" THEN Raise(exc)
                ELSE Return("dict", data))

----------------------------------------------------------------------------
(* The state machine: a caller invoking the functions one after another,   *)
(* the server answering each request with any status and body.             *)

Omitted == PyNone       \* an argument left to its default

Responses(bodies) == {Response(st, b) : st \in Statuses, b \in bodies}
Served(dry_run, bodies) == IF dry_run THEN {NoResponse} ELSE Responses(bodies)

Init ==
    /\ op = "none"
    /\ args = [dry_run |-> TRUE]
    /\ response = NoResponse
    /\ sent = <<>>
    /\ result = ReturnNone
    /\ n_calls = 0
    /\ n_live = 0
    /\ n_sent = 0
    /\ default_files = <<>>

\* bookkeeping common to the functions that take dry_run
Invoke(name, a, resp, out) ==
    /\ op' = name
    /\ args' = a
    /\ response' = resp
    /\ sent' = out.sent
    /\ result' = out.result
    /\ n_calls' = n_calls + 1
    /\ n_live' = n_live + (IF a.dry_run THEN 0 ELSE 1)
    /\ n_sent' = n_sent + Len(out.sent)

\* bookkeeping of the query functions, which have no dry_run
Query(name, a, resp, out) ==
    /\ op' = name
    /\ args' = a
    /\ response' = resp
    /\ sent' = out.sent
    /\ result' = out.result
    /\ n_calls' = n_calls + 1
    /\ UNCHANGED <<n_live, n_sent, default_files>>

TriggerArbitraryJob ==
    /\ n_calls < MaxCalls
    /\ \E repo_name \in Repos, builder \in Builders, revision \in Revisions,
          auth \in Auths, files_arg \in {Omitted} \cup {Some(f) : f \in FilesLists},
          dry_run \in BOOLEAN, extra_properties \in ExtraArgs :
         \E resp \in Served(dry_run, PostBodies) :
           LET files == IF files_arg.none THEN default_files ELSE files_arg.v
               out == trigger_arbitrary_job(repo_name, builder, revision, auth, files,
                                            dry_run, extra_properties, resp)
           IN  /\ Invoke("trigger_arbitrary_job",
                         [repo_name |-> repo_name, builder |-> builder,
                          revision |-> revision, auth |-> auth, files |-> files_arg,
                          dry_run |-> dry_run, extra_properties |-> extra_properties],
                         resp, out)
               /\ default_files' = IF files_arg.none THEN out.files ELSE default_files

MakeRetriggerRequest ==
    /\ n_calls < MaxCalls
    /\ \E repo_name \in Repos, request_id \in Ids, auth \in Auths, count \in Counts,
          priority \in Priorities, dry_run \in BOOLEAN :
         \E resp \in Served(dry_run, PostBodies) :
           /\ Invoke("make_retrigger_request",
                     [repo_name |-> repo_name, id |-> request_id, auth |-> auth,
                      count |-> count, priority |-> priority, dry_run |-> dry_run],
                     resp,
                     make_retrigger_request(repo_name, request_id, auth, count,
                                            priority, dry_run, resp))
           /\ UNCHANGED default_files

MakeCancelRequest ==
    /\ n_calls < MaxCalls
    /\ \E repo_name \in Repos, request_id \in Ids, auth \in Auths, dry_run \in BOOLEAN :
         \E resp \in Served(dry_run, PostBodies) :
           /\ Invoke("make_cancel_request",
                     [repo_name |-> repo_name, id |-> request_id, auth |-> auth,
                      dry_run |-> dry_run],
                     resp,
                     make_cancel_request(repo_name, request_id, auth, dry_run, resp))
           /\ UNCHANGED default_files

MakeRetriggerBuildRequest ==
    /\ n_calls < MaxCalls
    /\ \E repo_name \in Repos, build_id \in Ids, auth \in Auths, count \in Counts,
          priority \in Priorities, dry_run \in BOOLEAN :
         \E resp \in Served(dry_run, PostBodies) :
           /\ Invoke("make_retrigger_build_request",
                     [repo_name |-> repo_name, id |-> build_id, auth |-> auth,
                      count |-> count, priority |-> priority, dry_run |-> dry_run],
                     resp,
                     make_retrigger_build_request(repo_name, build_id, auth, count,
                                                  priority, dry_run, resp))
           /\ UNCHANGED default_files

MakeQueryRepositoriesRequest ==
    /\ n_calls < MaxCalls
    /\ \E auth \in Auths, dry_run \in BOOLEAN :
         \E resp \in Served(dry_run, ScheduleBodies) :
           /\ Invoke("make_query_repositories_request",
                     [auth |-> auth, dry_run |-> dry_run],
                     resp,
                     make_query_repositories_request(auth, dry_run, resp))
           /\ UNCHANGED default_files

QueryJobsSchedule ==
    /\ n_calls < MaxCalls
    /\ \E repo_name \in Repos, revision \in Revisions, auth \in Auths,
          resp \in Responses(ScheduleBodies) :
         Query("query_jobs_schedule",
               [repo_name |-> repo_name, revision |-> revision, auth |-> auth],
               resp,
               query_jobs_schedule(repo_name, revision, auth, resp))

QueryJobsUrl ==
    /\ n_calls < MaxCalls
    /\ \E repo_name \in Repos, revision \in Revisions :
         Query("query_jobs_url",
               [repo_name |-> repo_name, revision |-> revision],
               NoResponse,
               query_jobs_url(repo_name, revision))

\* repo_name: None (the default), the empty string, or a repository, which
\* the server may or may not list
RepoNameArgs == {PyNone} \cup {Some(r) : r \in Repos \cup {""}}

QueryPendingJobs ==
    /\ n_calls < MaxCalls
    /\ \E auth \in Auths, repo_name \in RepoNameArgs, return_raw \in BOOLEAN,
          resp \in Responses(PendingBodies) :
         Query("query_pending_jobs",
               [auth |-> auth, repo_name |-> repo_name, return_raw |-> return_raw],
               resp,
               query_pending_jobs(auth, repo_name, return_raw, resp))

Next ==
    \/ MakeRetriggerRequest
    \/ MakeCancelRequest
    \/ MakeRetriggerBuildRequest
    \/ TriggerArbitraryJob
    \/ MakeQueryRepositoriesRequest
    \/ QueryJobsSchedule
    \/ QueryJobsUrl
    \/ QueryPendingJobs

Spec == Init /\ [][Next]_vars

----------------------------------------------------------------------------
(* Vocabulary of the properties *)

DryRunOps == {"trigger_arbitrary_job", "make_retrigger_request",
              "make_retrigger_build_request", "make_cancel_request",
              "make_query_repositories_request"}
MutatingOps == DryRunOps \ {"make_query_repositories_request"}
RetriggerOps == {"make_retrigger_request", "make_retrigger_build_request"}

DryCall == op \in DryRunOps /\ args.dry_run
LiveCall == op \in DryRunOps /\ ~args.dry_run
LiveTrigger == op = "trigger_arbitrary_job" /\ ~args.dry_run

ReturnedNone == result.kind = "return" /\ result.tag = "None"
ReturnedResponse ==
    result.kind = "return" /\ result.tag = "response" /\ result.value = response
Raised(exc) == result.kind = "raise" /\ result.tag = exc

\* the form data of the request the last call sent
SentData == sent[1].kwargs["data"]

\* json.loads of an object and of a list of strings, from the token text
ObjectSize(text) == Len(text) \div 4
ObjectKeys(text) == [i \in 1..ObjectSize(text) |-> text[4 * i - 2][2]]
ObjectValues(text) == [i \in 1..ObjectSize(text) |-> text[4 * i][2]]
json_loads_object(text) ==
    [k \in {ObjectKeys(text)[i] : i \in 1..ObjectSize(text)} |->
        ObjectValues(text)[CHOOSE i \in 1..ObjectSize(text) : ObjectKeys(text)[i] = k]]
ListSize(text) == IF Len(text) = 2 THEN 0 ELSE (Len(text) - 1) \div 2
json_loads_list(text) == [i \in 1..ListSize(text) |-> text[2 * i][2]]

Rank(x) == CHOOSE i \in 1..Len(StrOrder) : StrOrder[i] = x
KeysSorted(text) ==
    \A i, j \in 1..ObjectSize(text) :
        i < j => Rank(ObjectKeys(text)[i]) < Rank(ObjectKeys(text)[j])

\* the list the last trigger_arbitrary_job call received as `files`
FilesInput == IF args.files.none THEN default_files ELSE args.files.v

----------------------------------------------------------------------------
(* C1: a call with dry_run true, of any of trigger_arbitrary_job,          *)
(* make_retrigger_request, make_retrigger_build_request,                   *)
(* make_cancel_request and make_query_repositories_request, sends no       *)
(* request and returns None; it never raises.                              *)
C1_DryRunIsNoOp ==
    DryCall => sent = <<>> /\ ReturnedNone

C1_Witness ==
    /\ op = "make_cancel_request" /\ args.dry_run
    /\ n_calls = 2 /\ n_live = 1 /\ n_sent = 1

----------------------------------------------------------------------------
(* C2, as stated: every mutating call (trigger, retrigger request,         *)
(* retrigger build, cancel) with dry_run false whose response has status   *)
(* 401 raises BuildapiAuthError whatever the body, and a response with any *)
(* other status never makes the call raise.                                *)
C2_AsStated ==
    (op \in MutatingOps /\ ~args.dry_run) =>
        IF response.status_code = 401
        THEN Raised("BuildapiAuthError")
        ELSE result.kind # "raise"

(* C2, amended: trigger_arbitrary_job with dry_run false raises            *)
(* BuildapiAuthError when the response has status 401, whatever the body;  *)
(* make_retrigger_request, make_retrigger_build_request and                *)
(* make_cancel_request with dry_run false return the response object for   *)
(* every status, 401 included, and never raise; no mutating call raises    *)
(* BuildapiAuthError on a status other than 401.                           *)
C2_AuthErrorOnlyFromTrigger ==
    (op \in MutatingOps /\ ~args.dry_run) =>
        /\ (op = "trigger_arbitrary_job" /\ response.status_code = 401)
               => Raised("BuildapiAuthError")
        /\ op # "trigger_arbitrary_job" => ReturnedResponse
        /\ Raised("BuildapiAuthError") => response.status_code = 401

C2_Witness ==
    /\ op = "trigger_arbitrary_job" /\ ~args.dry_run
    /\ response = Response(401, GoodPost)
    /\ Raised("BuildapiAuthError")

----------------------------------------------------------------------------
\* the one request of a trigger_arbitrary_job call: method, URL, sorted properties
TriggerPostsToBuildersUrl ==
    /\ Len(sent) = 1
    /\ sent[1].method = "POST"
    /\ sent[1].url = <<HOST_ROOT, "/self-serve", "/", args.repo_name, "/builders/",
                       args.builder, "/", args.revision>>
    /\ "properties" \in DOMAIN SentData
    /\ KeysSorted(SentData["properties"])

(* C3, as stated: trigger_arbitrary_job with dry_run false posts to        *)
(* {SELF_SERVE}/{repo}/builders/{builder}/{revision} a payload whose       *)
(* `properties` is a JSON object with sorted keys in which branch is the   *)
(* call's repo and revision is the call's revision, whatever               *)
(* extra_properties holds.                                                 *)
C3_AsStated ==
    LiveTrigger =>
        /\ TriggerPostsToBuildersUrl
        /\ LET props == json_loads_object(SentData["properties"])
           IN  /\ {"branch", "revision"} \subseteq DOMAIN props
               /\ props["branch"] = args.repo_name
               /\ props["revision"] = args.revision

(* C3, amended: the same request, whose `properties` is a JSON object with *)
(* sorted keys that always has the keys branch and revision and every key  *)
(* of extra_properties; a key of extra_properties has the value given      *)
(* there (also when the key is branch or revision), and otherwise branch   *)
(* is the call's repo and revision the call's revision.                    *)
C3_ExtraPropertiesOverride ==
    LiveTrigger =>
        /\ TriggerPostsToBuildersUrl
        /\ LET props == json_loads_object(SentData["properties"])
               extra == IF args.extra_properties.none THEN EmptyDict
                        ELSE args.extra_properties.v
           IN  /\ DOMAIN props = {"branch", "revision"} \cup DOMAIN extra
               /\ \A k \in DOMAIN extra : props[k] = extra[k]
               /\ "branch" \notin DOMAIN extra => props["branch"] = args.repo_name
               /\ "revision" \notin DOMAIN extra => props["revision"] = args.revision

C3_Witness ==
    /\ LiveTrigger
    /\ args.repo_name = "r2"
    /\ ~args.extra_properties.none
    /\ "branch" \in DOMAIN args.extra_properties.v
    /\ json_loads_object(SentData["properties"])["branch"] = "other"
    /\ json_loads_object(SentData["properties"])["revision"] = "rev1"

----------------------------------------------------------------------------
(* C4: make_retrigger_request (key request_id, path                        *)
(* {SELF_SERVE}/{repo}/request) and make_retrigger_build_request (key      *)
(* build_id, path {SELF_SERVE}/{repo}/build) post exactly {key: id} when   *)
(* count = 1 and priority = 0, and exactly {key: id, count: count,         *)
(* priority: priority} otherwise.                                          *)
C4_RetriggerPayload ==
    (op \in RetriggerOps /\ ~args.dry_run) =>
        LET key == IF op = "make_retrigger_request" THEN "request_id" ELSE "build_id"
            leaf == IF op = "make_retrigger_request" THEN "/request" ELSE "/build"
        IN  /\ Len(sent) = 1
            /\ sent[1].method = "POST"
            /\ sent[1].url = <<HOST_ROOT, "/self-serve", "/", args.repo_name, leaf>>
            /\ SentData[key] = args.id
            /\ IF args.count = 1 /\ args.priority = 0
               THEN DOMAIN SentData = {key}
               ELSE /\ DOMAIN SentData = {key, "count", "priority"}
                    /\ SentData["count"] = args.count
                    /\ SentData["priority"] = args.priority

C4_Witness ==
    /\ op = "make_retrigger_build_request" /\ ~args.dry_run
    /\ args.count = 1 /\ args.priority = 2
    /\ DOMAIN SentData = {"build_id", "count", "priority"}
    /\ SentData["count"] = 1

----------------------------------------------------------------------------
(* C5: the payload of trigger_arbitrary_job has a `files` field if and     *)
(* only if the input files list is non-empty and all its elements are      *)
(* truthy; the field is then the JSON encoding of the whole list, and one  *)
(* falsy element suppresses it altogether.                                 *)
C5_FilesAllOrNothing ==
    LiveTrigger =>
        /\ "files" \in DOMAIN SentData
              <=> (Len(FilesInput) > 0 /\ \A i \in 1..Len(FilesInput) : FilesInput[i] # "")
        /\ "files" \in DOMAIN SentData
              => json_loads_list(SentData["files"]) = FilesInput

C5_Witness ==
    /\ LiveTrigger
    /\ ~args.files.none
    /\ args.files.v = <<"f1", "">>
    /\ "files" \notin DOMAIN SentData

----------------------------------------------------------------------------
\* query_pending_jobs was answered 200 with a body {pending: M}
PendingAnswered ==
    /\ op = "query_pending_jobs"
    /\ response.status_code = 200
    /\ response.body.kind = "object"
    /\ "pending" \in DOMAIN response.body.value

(* C6: on a 200 response with body {pending: M}, query_pending_jobs with   *)
(* return_raw true returns the body as parsed, unmodified; with return_raw *)
(* false and repo_name a key X of M it returns the mapping whose only key  *)
(* is X, with M's value for X; with return_raw false and repo_name not     *)
(* given or not a key of M it returns the mapping of all the repos of M.   *)
C6_PendingReduction ==
    PendingAnswered =>
        LET M == response.body.value["pending"]
        IN  /\ result.kind = "return"
            /\ IF args.return_raw
               THEN result.tag = "json" /\ result.value = [k \in {"pending"} |-> M]
               ELSE /\ result.tag = "dict"
                    /\ IF ~args.repo_name.none /\ args.repo_name.v \in DOMAIN M
                       THEN /\ DOMAIN result.value = {args.repo_name.v}
                            /\ result.value[args.repo_name.v] = M[args.repo_name.v]
                       ELSE result.value = M

C6_Witness ==
    /\ PendingAnswered
    /\ ~args.return_raw
    /\ args.repo_name = Some("r1")
    /\ DOMAIN response.body.value["pending"] = {"r1", "r2"}
    /\ DOMAIN result.value = {"r1"}
    /\ result.value["r1"] = [r \in {"rev1"} |-> <<"job1">>]

----------------------------------------------------------------------------
ReturnedEmptyList ==
    result.kind = "return" /\ result.tag = "list" /\ result.value = <<>>

(* C7: query_jobs_schedule returns the empty list, without raising, on     *)
(* every status other than 200 (401 and 5xx included) and the parsed JSON  *)
(* body on status 200; query_pending_jobs returns the empty list on every  *)
(* status other than 200 as well.                                          *)
C7_Non200IsEmpty ==
    /\ (op \in {"query_jobs_schedule", "query_pending_jobs"}
           /\ response.status_code # 200) => ReturnedEmptyList
    /\ (op = "query_jobs_schedule" /\ response.status_code = 200
           /\ response.body.kind # "malformed")
         => /\ result.kind = "return" /\ result.tag = "json"
            /\ result.value = response.body.value

C7_Witness ==
    /\ op = "query_jobs_schedule"
    /\ response = Response(401, JsonArray(<<"job1", "job2">>))
    /\ ReturnedEmptyList

----------------------------------------------------------------------------
(* C8: trigger_arbitrary_job with dry_run false and a response whose       *)
(* status is not 401 returns the response object when the body parses as   *)
(* JSON and None when it does not; no body makes it raise.                 *)
C8_NoBodyRaises ==
    (LiveTrigger /\ response.status_code # 401) =>
        IF response.body.kind = "malformed" THEN ReturnedNone ELSE ReturnedResponse

----------------------------------------------------------------------------
\* method and URL of each operation, as documented
ExpectedMethod ==
    CASE op = "make_cancel_request" -> "DELETE"
      [] op = "make_query_repositories_request" -> "GET"
      [] OTHER -> "POST"

ExpectedUrl ==
    <<HOST_ROOT, "/self-serve">> \o
    CASE op = "trigger_arbitrary_job" ->
             <<"/", args.repo_name, "/builders/", args.builder, "/", args.revision>>
      [] op = "make_retrigger_request" -> <<"/", args.repo_name, "/request">>
      [] op = "make_retrigger_build_request" -> <<"/", args.repo_name, "/build">>
      [] op = "make_cancel_request" -> <<"/", args.repo_name, "/request/", args.id>>
      [] OTHER -> <<"/branches?format=json">>

(* C9: over any sequence of invocations, the number of requests sent is    *)
(* the number of invocations with dry_run false, and each of those sends   *)
(* exactly one request, of the operation's method and path, whatever the   *)
(* response: POST for trigger and the two retriggers, DELETE to            *)
(* {SELF_SERVE}/{repo}/request/{request_id} with no body for cancel, GET   *)
(* for query_repositories.                                                 *)
C9_OneRequestPerLiveCall ==
    /\ n_sent = n_live
    /\ LiveCall =>
         /\ Len(sent) = 1
         /\ sent[1].method = ExpectedMethod
         /\ sent[1].url = ExpectedUrl
         /\ op = "make_cancel_request" => "data" \notin DOMAIN sent[1].kwargs

C9_Witness ==
    /\ op = "make_cancel_request" /\ ~args.dry_run
    /\ response.status_code = 500
    /\ n_calls = 2 /\ n_live = 2 /\ n_sent = 2
    /\ Len(sent) = 1

----------------------------------------------------------------------------
(* C10: no call changes the list shared as the default of `files`, so a    *)
(* trigger_arbitrary_job call that omits `files` sends no `files` field,   *)
(* whatever calls came before it.                                          *)
C10_DefaultFilesStaysEmpty ==
    /\ default_files = <<>>
    /\ (LiveTrigger /\ args.files.none) => "files" \notin DOMAIN SentData

C10_Witness ==
    /\ LiveTrigger
    /\ args.files.none
    /\ n_calls = 2
    /\ "files" \notin DOMAIN SentData

====
